---- MODULE Spec2Model ----
(***************************************************************************)
(* The dialog state machine of golem: golem/core/dialog_manager.py         *)
(* (class DialogManager).  One DialogManager object is built per chat      *)
(* session; it loads the session from the store (redis), processes turns   *)
(* and saves the session back.                                             *)
(*                                                                         *)
(* Names.  A state name "flow.state" is the pair <<flow, state>>.  An       *)
(* argument of move_to is one of                                           *)
(*    <<"none">>                      None                                 *)
(*    <<"name", flow, state, act>>    "flow.state:act"; flow = "" for a    *)
(*                                    bare "state", act = "" for no suffix *)
(*    <<"back", n>>                   the integer n                        *)
(* A history entry {name, timestamp} is kept as its name.                  *)
(***************************************************************************)
EXTENDS Integers, Sequences, FiniteSets, TLC

VARIABLES db, dm, last

vars == <<db, dm, last>>

(* ------------------------------ bounds -------------------------------- *)
\* turns one DialogManager object processes (guard on context.counter)
MaxTurns == 2
\* direct move_to calls are taken while the history is shorter than this
MaxHist == 2
\* entity keys one inbound event carries
MaxKeys == 2

(* ----------------------------- constants ------------------------------ *)
None == <<"none">>

IsNone(x) == x[1] = "none"

\* DialogManager.version, the schema marker written by save_state
version == "1.32"

Managers == {"m1", "m2"}

Chats == {"c1", "c2"}

supported_types == {"message", "postback", "schedule"}

(* ------------------- the Flow Registry (self.flows) -------------------- *)
\* A fixed registry, as load_flows_from_definitions would return it, in
\* the iteration order of self.flows.values().
FlowOrder == <<"default", "billing", "orders", "checkout">>

flow_states(f) ==
    CASE f = "default" -> <<"root">>
      [] f = "billing" -> <<"root", "collect_amount", "cancel">>
      [] f = "orders" -> <<"root", "confirm">>
      [] f = "checkout" -> <<"pay">>
      [] OTHER -> <<>>

\* the intents a flow declares (Flow.matches_intent)
flow_intents(f) ==
    CASE f = "orders" -> {"cancel_order"}
      [] f = "checkout" -> {"pay_now"}
      [] OTHER -> {}

Range(s) == {s[i] : i \in 1..Len(s)}

StateNames == {"root", "collect_amount", "cancel", "confirm", "pay"}

\* every "flow.state" of the registry
States == {st \in Range(FlowOrder) \X StateNames : st[2] \in Range(flow_states(st[1]))}

DefaultRoot == <<"default", "root">>
OrdersRoot == <<"orders", "root">>
OrdersConfirm == <<"orders", "confirm">>
BillingRoot == <<"billing", "root">>
CollectAmount == <<"billing", "collect_amount">>
BillingCancel == <<"billing", "cancel">>
CheckoutPay == <<"checkout", "pay">>

\* what a state's action does when called with the dialog:
\*   <<"no_action">>      the state has no action (state.action is None)
\*   <<"say">>            sends one message
\*   <<"set_state", t>>   sets the entity _state to t, sends one message
\*   <<"say_next", t>>    send_response(message, next=t)
\*   <<"raise">>          raises before doing anything
state_action(st) ==
    CASE st = OrdersRoot -> <<"set_state", <<"name", "", "confirm", "">>>>
      [] st = BillingCancel -> <<"no_action">>
      [] st = OrdersConfirm -> <<"say_next", <<"name", "default", "root", "init">>>>
      [] st = CheckoutPay -> <<"raise">>
      [] OTHER -> <<"say">>

\* the entity keys a state accepts while active (State.accepts_message)
state_accepts(st) ==
    CASE st = CollectAmount -> {"amount"}
      [] st = CheckoutPay -> {"amount"}
      [] OTHER -> {}

\* a state's requirements, in declared order; requirement k is met when
\* the entity k is in the context
state_requires(st) ==
    CASE st = CollectAmount -> <<"account">>
      [] OTHER -> <<>>

\* the intent a state itself handles (Flow.get_state_for_intent)
state_intent(st) ==
    CASE st = BillingCancel -> "cancel_order"
      [] OTHER -> ""

(* ----------------------------- the Context ----------------------------- *)
Keys == {"_state", "intent", "amount", "account", "test_record"}

Absent == [present |-> FALSE, value |-> None, age |-> 0]

NoEntities == [k \in Keys |-> Absent]

\* Context.from_dict(data={}): an empty context
EmptyContext == [counter |-> 0, entities |-> NoEntities, history |-> <<>>]

\* the context of a DialogManager whose __init__ has not reached line 57
NoContext == [counter |-> -1, entities |-> NoEntities, history |-> <<>>]

\* the values an inbound event can carry under each key
KeyValues(k) ==
    CASE k = "_state" -> {<<"name", "billing", "collect_amount", "">>,
                          <<"name", "checkout", "pay", "">>,
                          <<"name", "", "confirm", "">>}
      [] k = "intent" -> {<<"cancel_order">>, <<"pay_now">>}
      [] k = "amount" -> {<<"42">>}
      [] k = "account" -> {<<"acc">>}
      [] k = "test_record" -> {<<"start">>}

Opt(k) == KeyValues(k) \cup {None}

\* the entity mappings of inbound events: key -> value, at most MaxKeys keys
Inputs ==
    {e \in {[k \in Keys |-> CASE k = "_state" -> a [] k = "intent" -> b [] k = "amount" -> c
                                [] k = "account" -> d [] k = "test_record" -> f] :
                a \in Opt("_state"), b \in Opt("intent"), c \in Opt("amount"),
                d \in Opt("account"), f \in Opt("test_record")} :
        Cardinality({k \in Keys : ~IsNone(e[k])}) <= MaxKeys}

NoInput == [k \in Keys |-> None]

\* the inbound events: a message with its entities (a postback is processed
\* exactly as a message is), a scheduled callback, and an event of a type
\* process() ignores, whose entities it never reads
Events ==
    {<<"message", e>> : e \in Inputs} \cup {<<"schedule", NoInput>>, <<"seen", NoInput>>}

\* the events with at most one entity
SmallEvents == {ev \in Events : Cardinality({k \in Keys : ~IsNone(ev[2][k])}) <= 1}

keys(e) == {k \in Keys : ~IsNone(e[k])}

\* Context.add_entities: a new entity has age 0, every other one ages by 1
add_entities(ctx, new) ==
    [ctx EXCEPT !.entities =
        [k \in Keys |->
            IF ~IsNone(new[k]) THEN [present |-> TRUE, value |-> new[k], age |-> 0]
            ELSE IF ctx.entities[k].present
                 THEN [ctx.entities[k] EXCEPT !.age = @ + 1]
                 ELSE Absent]]

\* Context.set(entity, value): the entity is (re)set, with age 0
context_set(ctx, k, v) ==
    [ctx EXCEPT !.entities[k] = [present |-> TRUE, value |-> v, age |-> 0]]

\* Context.get(name, max_age): the value, if the entity is at most max_age old
context_get(ctx, k, max_age) ==
    IF ctx.entities[k].present /\ ctx.entities[k].age <= max_age
    THEN ctx.entities[k].value ELSE None

\* Context.intent.get(): the most recent intent, of any age
intent_get(ctx) ==
    IF ctx.entities["intent"].present THEN ctx.entities["intent"].value ELSE None

\* Context.add_state: append {name, now} to the history
add_state(ctx, st) == [ctx EXCEPT !.history = Append(@, st)]

\* Context.get_history_state(index): index 0 is the last entry
get_history_state(ctx, index) ==
    IF index >= 0 /\ Len(ctx.history) > index
    THEN ctx.history[Len(ctx.history) - index] ELSE None

\* Context.to_dict / json.dumps and json.loads / Context.from_dict
to_dict(ctx) == <<"ctx", ctx.counter, ctx.entities, ctx.history>>

from_dict(data) ==
    IF data[1] = "ctx"
    THEN [counter |-> data[2], entities |-> data[3], history |-> data[4]]
    ELSE EmptyContext

(* ------------------------- the persistent store ------------------------ *)
\* redis: the key dialog_version and the hashes session_state and
\* session_context (save_state also writes session_interface and
\* chat_session, which depend on the session object alone)
EmptyDb ==
    [dialog_version |-> "",
     session_state |-> [c \in Chats |-> None],
     session_context |-> [c \in Chats |-> None]]

(* ------------------- the DialogManager's operations -------------------- *)
\* The operations are functions of a record w, the object and its world
\* while a call runs:
\*    cur, ctx, recording   self.current_state_name, self.context, self.recording
\*    db                    the store
\*    trace                 the calls made on the channel adapter, the actions
\*                          run and the saves, in order
\*    exc                   an exception is propagating
\*    branch                the branch process() took
\*    ret                   the value the last move_to returned
\*    failing               the attempts to post a message that the channel
\*                          adapter fails (none, unless the call says so)
emit(w, e) == [w EXCEPT !.trace = Append(@, e)]

returning(w, r) == [w EXCEPT !.ret = r]

state_exists(st) == st \in States

save_state(w, c) ==
    IF w.ctx = NoContext THEN w
    ELSE emit([w EXCEPT !.db.session_state[c] = w.cur,
                        !.db.session_context[c] = to_dict(w.ctx),
                        !.db.dialog_version = version],
              <<"save_state", w.cur>>)

\* the posts attempted so far in the call, delivered or not
posts(w) == SelectSeq(w.trace, LAMBDA e : e[1] \in {"post_message", "post_failed"})

\* session.interface.post_message: the adapter raises on the attempts whose
\* ordinal in the call is in w.failing
post_message(w, what) ==
    IF Len(posts(w)) + 1 \in w.failing
    THEN [emit(w, <<"post_failed", what>>) EXCEPT !.exc = TRUE]
    ELSE emit(w, <<"post_message", what>>)

check_requirements(st, ctx) ==
    \A i \in 1..Len(state_requires(st)) : ctx.entities[state_requires(st)[i]].present

get_first_requirement(st, ctx) ==
    state_requires(st)[CHOOSE i \in 1..Len(state_requires(st)) :
        /\ ~ctx.entities[state_requires(st)[i]].present
        /\ \A j \in 1..(i - 1) : ctx.entities[state_requires(st)[j]].present]

accepts_message(st, ks) == state_accepts(st) \cap ks # {}

\* Flow.get_state_for_intent: the first state of flow f that handles the intent
get_state_for_intent(f, intent) ==
    IF \E i \in 1..Len(flow_states(f)) : <<state_intent(<<f, flow_states(f)[i]>>)>> = intent
    THEN <<"name", f,
           flow_states(f)[CHOOSE i \in 1..Len(flow_states(f)) :
               /\ <<state_intent(<<f, flow_states(f)[i]>>)>> = intent
               /\ \A j \in 1..(i - 1) : <<state_intent(<<f, flow_states(f)[j]>>)>> # intent],
           "">>
    ELSE None

matches_intent(f, intent) == \E i \in flow_intents(f) : <<i>> = intent

\* lines 235-238 of move_to: an integer is looked up in the history
by_history(ctx, t) ==
    IF t[1] # "back" THEN t
    ELSE IF IsNone(get_history_state(ctx, t[2] - 1)) THEN None
    ELSE <<"name", get_history_state(ctx, t[2] - 1)[1], get_history_state(ctx, t[2] - 1)[2], "">>

\* lines 239-244 of move_to: None is the current state, the :action suffix
\* is dropped, a bare name gets the current flow
qualify(cur, n) ==
    IF IsNone(n) THEN cur
    ELSE <<IF n[2] = "" THEN cur[1] ELSE n[2], n[3]>>

resolve_target(cur, ctx, t) == qualify(cur, by_history(ctx, t))

RECURSIVE move_to(_, _, _, _, _)
RECURSIVE move_to_state(_, _, _, _, _)
RECURSIVE send_response(_, _, _, _)
RECURSIVE run_action(_, _, _)
RECURSIVE run_accept(_, _)
RECURSIVE requirement_action(_, _, _)
RECURSIVE run_entry_action(_, _, _)
RECURSIVE enter_state(_, _, _)

send_response(w, c, what, next) ==
    LET then(x) == IF x.exc THEN x ELSE move_to(x, c, next, FALSE, FALSE)
    IN IF IsNone(next) THEN post_message(w, what)
       ELSE then(post_message(w, what))

run_action(w, c, st) ==
    CASE state_action(st)[1] = "raise" -> [emit(w, <<"action", st>>) EXCEPT !.exc = TRUE]
      [] state_action(st)[1] = "say" -> send_response(emit(w, <<"action", st>>), c, "text", None)
      [] state_action(st)[1] = "set_state" ->
            send_response([emit(w, <<"action", st>>) EXCEPT
                              !.ctx = context_set(@, "_state", state_action(st)[2])],
                          c, "text", None)
      [] state_action(st)[1] = "say_next" ->
            send_response(emit(w, <<"action", st>>), c, "text", state_action(st)[2])

run_accept(w, c) ==
    IF state_action(w.cur)[1] = "no_action" THEN w ELSE run_action(w, c, w.cur)

requirement_action(w, c, r) ==
    send_response(emit(w, <<"requirement", w.cur, r>>), c, "ask", None)

\* lines 267-273: the requirement gate and the action it lets run
run_entry_action(w, c, new) ==
    IF check_requirements(new, w.ctx) THEN run_accept(w, c)
    ELSE requirement_action(w, c, get_first_requirement(new, w.ctx))

\* move_to without its except clause
contain_nothing(w, c) == w

\* lines 275-286: the except clause around the action
contain(w, c) ==
    IF w.exc THEN send_response([w EXCEPT !.exc = FALSE], c, "apology", None) ELSE w

\* lines 259-262: the state change is announced and recorded
state_change(w, new) ==
    IF w.recording = "unset" THEN [emit(w, <<"state_change", new>>) EXCEPT !.exc = TRUE]
    ELSE IF w.recording = "on"
         THEN emit(emit(w, <<"state_change", new>>), <<"record_state_change", new>>)
         ELSE emit(w, <<"state_change", new>>)

\* lines 255-286: what a move that is not initializing does in the new state
enter_state(w, c, new) ==
    LET act(x) == IF x.exc THEN x ELSE contain(run_entry_action(x, c, new), c)
    IN act(state_change(w, new))

\* lines 288-289
finish_move(w, c) == IF w.exc THEN w ELSE returning(save_state(w, c), TRUE)

\* move_to_state without the check that the state exists
move_to_state_any_name(w, c, new, initializing, save_identical) ==
    IF new = w.cur
    THEN returning(IF ~initializing /\ save_identical
                   THEN [w EXCEPT !.ctx = add_state(@, new)] ELSE w, FALSE)
    ELSE IF initializing THEN finish_move([w EXCEPT !.cur = new], c)
    ELSE finish_move(enter_state([w EXCEPT !.cur = new, !.ctx = add_state(@, new)], c, new), c)

\* move_to_state changing the state without recording it in the history
move_to_state_unrecorded(w, c, new, initializing, save_identical) ==
    IF ~state_exists(new) THEN returning(w, FALSE)
    ELSE IF new = w.cur
         THEN returning(IF ~initializing /\ save_identical
                        THEN [w EXCEPT !.ctx = add_state(@, new)] ELSE w, FALSE)
         ELSE IF initializing THEN finish_move([w EXCEPT !.cur = new], c)
         ELSE finish_move(enter_state([w EXCEPT !.cur = new], c, new), c)

\* move_to_state announcing the state before it finds it is the current one
move_to_state_notify_identical(w, c, new, initializing, save_identical) ==
    IF ~state_exists(new) THEN returning(w, FALSE)
    ELSE IF new = w.cur
         THEN returning(emit(IF ~initializing /\ save_identical
                             THEN [w EXCEPT !.ctx = add_state(@, new)] ELSE w,
                             <<"state_change", new>>), FALSE)
         ELSE IF initializing THEN finish_move([w EXCEPT !.cur = new], c)
         ELSE finish_move(enter_state([w EXCEPT !.cur = new, !.ctx = add_state(@, new)], c, new), c)

\* move_to_state recording a move to the current state as well
move_to_state_record_identical(w, c, new, initializing, save_identical) ==
    IF ~state_exists(new) THEN returning(w, FALSE)
    ELSE IF new = w.cur
         THEN returning(IF ~initializing THEN [w EXCEPT !.ctx = add_state(@, new)] ELSE w, FALSE)
         ELSE IF initializing THEN finish_move([w EXCEPT !.cur = new], c)
         ELSE finish_move(enter_state([w EXCEPT !.cur = new, !.ctx = add_state(@, new)], c, new), c)

\* lines 245-289 of move_to, for the resolved name new
move_to_state(w, c, new, initializing, save_identical) ==
    IF ~state_exists(new) THEN returning(w, FALSE)
    ELSE IF new = w.cur
         THEN returning(IF ~initializing /\ save_identical
                        THEN [w EXCEPT !.ctx = add_state(@, new)] ELSE w, FALSE)
         ELSE IF initializing THEN finish_move([w EXCEPT !.cur = new], c)
         ELSE finish_move(enter_state([w EXCEPT !.cur = new, !.ctx = add_state(@, new)], c, new), c)

move_to(w, c, t, initializing, save_identical) ==
    move_to_state(w, c, resolve_target(w.cur, w.ctx, t), initializing, save_identical)

\* move_by_entities going to the root of the current flow
move_by_entities_current_flow(w, c) == move_to(w, c, <<"name", "", "root", "">>, FALSE, FALSE)

move_by_entities(w, c) == move_to(w, c, <<"name", "default", "root", "">>, FALSE, FALSE)

check_state_transition(w, c) ==
    move_to(w, c, context_get(w.ctx, "_state", 0), FALSE, FALSE)

\* intent_target without the scan of all flows
intent_target_own_flow(f, intent) == get_state_for_intent(f, intent)

\* lines 200-212: the state the intent leads to, from the current flow f
intent_target(f, intent) ==
    IF ~IsNone(get_state_for_intent(f, intent)) THEN get_state_for_intent(f, intent)
    ELSE IF \E i \in 1..Len(FlowOrder) : matches_intent(FlowOrder[i], intent)
         THEN <<"name",
                FlowOrder[CHOOSE i \in 1..Len(FlowOrder) :
                    /\ matches_intent(FlowOrder[i], intent)
                    /\ \A j \in 1..(i - 1) : ~matches_intent(FlowOrder[j], intent)],
                "root", "">>
         ELSE None

check_intent_transition(w, c) ==
    IF IsNone(intent_get(w.ctx)) THEN returning(w, FALSE)
    ELSE IF IsNone(intent_target(w.cur[1], intent_get(w.ctx))) THEN returning(w, FALSE)
    ELSE move_to(w, c, intent_target(w.cur[1], intent_get(w.ctx)), FALSE, FALSE)

save_inactivity_callback(w, c) == emit(w, <<"session_active">>)

test_record_message(w, c) ==
    IF ~w.ctx.entities["test_record"].present
    THEN returning([w EXCEPT !.recording = "off"], FALSE)
    ELSE IF w.ctx.entities["test_record"].age = 0
         THEN finish_move(send_response([w EXCEPT !.recording = "off"], c,
                                        "test_record", None), c)
         ELSE returning([w EXCEPT !.recording = "off"], FALSE)

\* accept_or_fall_back without the save_state after run_accept
accept_or_fall_back_unsaved(w, c, entities) ==
    LET saved(x) == IF x.exc THEN x ELSE save_state(x, c)
    IN IF accepts_message(w.cur, keys(entities))
       THEN run_accept([w EXCEPT !.branch = "accept"], c)
       ELSE saved(move_by_entities([w EXCEPT !.branch = "fallback"], c))

\* lines 113-118 of process: in-place acceptance, or the fallback
accept_or_fall_back(w, c, entities) ==
    LET saved(x) == IF x.exc THEN x ELSE save_state(x, c)
    IN IF accepts_message(w.cur, keys(entities))
       THEN saved(run_accept([w EXCEPT !.branch = "accept"], c))
       ELSE saved(move_by_entities([w EXCEPT !.branch = "fallback"], c))

\* transition with in-place acceptance tried before the override
transition_accept_first(w, c, entities) ==
    LET by_intent(x) ==
            IF x.exc THEN x
            ELSE IF x.ret THEN [x EXCEPT !.branch = "intent"]
            ELSE accept_or_fall_back(x, c, entities)
        by_state(x) ==
            IF x.exc THEN x
            ELSE IF x.ret THEN [x EXCEPT !.branch = "override"]
            ELSE by_intent(check_intent_transition(x, c))
    IN IF accepts_message(w.cur, keys(entities)) THEN accept_or_fall_back(w, c, entities)
       ELSE by_state(check_state_transition(w, c))

\* lines 110-118 of process
transition(w, c, entities) ==
    LET by_intent(x) ==
            IF x.exc THEN x
            ELSE IF x.ret THEN [x EXCEPT !.branch = "intent"]
            ELSE accept_or_fall_back(x, c, entities)
        by_state(x) ==
            IF x.exc THEN x
            ELSE IF x.ret THEN [x EXCEPT !.branch = "override"]
            ELSE by_intent(check_intent_transition(x, c))
    IN by_state(check_state_transition(w, c))

\* lines 120-123 of process
processing_end(w) ==
    IF w.exc THEN w ELSE emit(emit(w, <<"processing_end">>), <<"log_user_message">>)

\* lines 98-123 of process, for a supported message type
process_message(w, c, message_type, entities) ==
    LET go(x) ==
            IF x.ret \/ x.exc THEN [x EXCEPT !.branch = "test_record"]
            ELSE processing_end(transition(IF message_type # "schedule"
                                           THEN save_inactivity_callback(x, c) ELSE x,
                                           c, entities))
    IN go(test_record_message([w EXCEPT !.ctx = add_entities([@ EXCEPT !.counter = @ + 1],
                                                             entities)], c))

\* process without the filter on the message type
process_any_type(w, c, message_type, entities) ==
    process_message(emit(w, <<"processing_start">>), c, message_type, entities)

process(w, c, message_type, entities) ==
    IF message_type \notin supported_types
    THEN [emit(w, <<"processing_start">>) EXCEPT !.branch = "ignored"]
    ELSE process_message(emit(w, <<"processing_start">>), c, message_type, entities)

(* ------------------------------ the state ------------------------------ *)
\* dm[m]: the DialogManager object m (built: its __init__ has run)
NoDM == [built |-> FALSE, chat |-> "", cur |-> DefaultRoot, ctx |-> NoContext, recording |-> "unset"]

\* the world of a call on object d
world(d) ==
    [cur |-> d.cur, ctx |-> d.ctx, recording |-> d.recording, db |-> db,
     trace |-> <<>>, exc |-> FALSE, branch |-> "none", ret |-> FALSE, failing |-> {}]

\* the object after the call
object(d, w) == [d EXCEPT !.cur = w.cur, !.ctx = w.ctx, !.recording = w.recording]

\* last: the last call, what it was given, the object and the session's
\* record before it, and what it did
NoCall ==
    [op |-> "none", m |-> "", chat |-> "", message_type |-> "", entities |-> NoInput,
     target |-> None, save_identical |-> FALSE,
     pre |-> NoDM, pre_state |-> None, pre_context |-> None,
     trace |-> <<>>, raised |-> FALSE, ret |-> FALSE, branch |-> "none"]

call(op, m, c, w) ==
    [NoCall EXCEPT !.op = op, !.m = m, !.chat = c, !.pre = dm[m],
                   !.pre_state = db.session_state[c], !.pre_context = db.session_context[c],
                   !.trace = w.trace, !.raised = w.exc, !.ret = w.ret, !.branch = w.branch]

Init ==
    /\ db = EmptyDb
    /\ dm = [m \in Managers |-> NoDM]
    /\ last = NoCall

\* __init__ that never reads the persisted context
init_object_fresh_context(c) ==
    LET loaded(x) == [x EXCEPT !.ctx = from_dict(<<"empty">>)]
    IN IF db.dialog_version = version /\ ~IsNone(db.session_context[c])
       THEN loaded(move_to(world([NoDM EXCEPT !.chat = c]), c,
                           <<"name", db.session_state[c][1], db.session_state[c][2], "">>,
                           TRUE, FALSE))
       ELSE [world([NoDM EXCEPT !.chat = c]) EXCEPT !.cur = DefaultRoot,
                                                   !.ctx = from_dict(<<"empty">>)]

\* lines 43-57 of __init__, for the session with chat id c
init_object(c) ==
    LET loaded(x) == [x EXCEPT !.ctx = from_dict(db.session_context[c])]
    IN IF db.dialog_version = version /\ ~IsNone(db.session_context[c])
       THEN loaded(move_to(world([NoDM EXCEPT !.chat = c]), c,
                           <<"name", db.session_state[c][1], db.session_state[c][2], "">>,
                           TRUE, FALSE))
       ELSE [world([NoDM EXCEPT !.chat = c]) EXCEPT !.cur = DefaultRoot,
                                                   !.ctx = from_dict(<<"empty">>)]

\* the call returns (or raises) in world w
Return(op, m, c, w, message_type, entities, t, save_identical) ==
    /\ dm' = [dm EXCEPT ![m] = [built |-> TRUE, chat |-> c, cur |-> w.cur, ctx |-> w.ctx,
                                recording |-> w.recording]]
    /\ db' = w.db
    /\ last' = [call(op, m, c, w) EXCEPT !.message_type = message_type, !.entities = entities,
                                         !.target = t, !.save_identical = save_identical]

\* DialogManager(session)
New(m, c) == Return("new", m, c, init_object(c), "", NoInput, None, FALSE)

\* dialog.process(message_type, entities)
Process(m, message_type, entities) ==
    /\ dm[m].built
    /\ dm[m].ctx.counter < MaxTurns
    /\ Return("process", m, dm[m].chat, process(world(dm[m]), dm[m].chat, message_type, entities),
              message_type, entities, None, FALSE)

MoveTargets ==
    {<<"name", "orders", "root", "">>, <<"name", "", "collect_amount", "">>,
     <<"name", "checkout", "pay", "">>, <<"back", 1>>, <<"back", 2>>}

\* dialog.move_to(t, save_identical=...), called from outside process()
MoveTo(m, t, save_identical) ==
    /\ dm[m].built
    /\ Len(dm[m].ctx.history) < MaxHist
    /\ Return("move_to", m, dm[m].chat, move_to(world(dm[m]), dm[m].chat, t, FALSE, save_identical),
              "", NoInput, t, save_identical)

\* one session whose turns come one at a time: the service builds a
\* DialogManager for the session and has it process events
Next ==
    \/ New("m1", "c1")
    \/ \E ev \in Events : Process("m1", ev[1], ev[2])

Spec == Init /\ [][Next]_vars

\* the same, with move_to also called from outside process()
NextMove ==
    \/ New("m1", "c1")
    \/ \E ev \in SmallEvents : Process("m1", ev[1], ev[2])
    \/ \E t \in MoveTargets, save_identical \in BOOLEAN : MoveTo("m1", t, save_identical)

SpecMove == Init /\ [][NextMove]_vars

\* two DialogManager objects for the same session, as two workers of the
\* service build them; nothing in __init__, process or save_state takes a lock
ConcEvents ==
    {ev \in SmallEvents :
        /\ ev[1] # "schedule"
        /\ \A k \in Keys : ~IsNone(ev[2][k]) => ev[2][k] \in {<<"42">>, <<"cancel_order">>}}

NextConc ==
    \/ \E m \in Managers : New(m, "c1")
    \/ \E m \in Managers, ev \in ConcEvents : Process(m, ev[1], ev[2])

SpecConc == Init /\ [][NextConc]_vars

\* the attempts to post that fail in a call: the first, the second, or both
Failures == SUBSET {1, 2} \ {{}}

\* dialog.process(message_type, entities) while the channel adapter fails
\* to deliver
ProcessFailing(m, message_type, entities, failing) ==
    /\ dm[m].built
    /\ dm[m].ctx.counter < MaxTurns
    /\ Return("process", m, dm[m].chat,
              process([world(dm[m]) EXCEPT !.failing = failing], dm[m].chat,
                      message_type, entities),
              message_type, entities, None, FALSE)

\* one session, whose outbound messages may fail to be delivered
NextDelivery ==
    \/ New("m1", "c1")
    \/ \E ev \in SmallEvents : Process("m1", ev[1], ev[2])
    \/ \E ev \in SmallEvents, failing \in Failures : ProcessFailing("m1", ev[1], ev[2], failing)

SpecDelivery == Init /\ [][NextDelivery]_vars

\* the dialog_version a previous release of the service wrote to the store
older_version == "1.31"

\* the service is redeployed with a new DialogManager.version: the running
\* objects are gone, and what the store holds was written under the version
\* before, so its dialog_version no longer equals DialogManager.version
Upgrade ==
    /\ db.dialog_version = version
    /\ db' = [db EXCEPT !.dialog_version = older_version]
    /\ dm' = [m \in Managers |-> NoDM]
    /\ last' = [NoCall EXCEPT !.op = "upgrade"]

\* two sessions, each with its own DialogManager, whose calls interleave;
\* the service may be redeployed between them
NextTwo ==
    \/ New("m1", "c1")
    \/ New("m2", "c2")
    \/ \E m \in Managers, ev \in ConcEvents : Process(m, ev[1], ev[2])
    \/ Upgrade

SpecTwo == Init /\ [][NextTwo]_vars

(* ------------------------- reading the last call ----------------------- *)
\* the last call was process() with a supported message type
Turn == last.op = "process" /\ last.message_type \in supported_types

\* ... and it reached the transition logic at line 110 (it was not ended at
\* line 103 by the test-recording marker)
Resolving == Turn /\ last.branch # "test_record"

\* the object the last call was made on, after the call
me == dm[last.m]

\* the context at line 110: counter incremented, entities merged
TurnContext == add_entities([last.pre.ctx EXCEPT !.counter = @ + 1], last.entities)

\* the age-0 _state override of the turn, and the state it names
Override == context_get(TurnContext, "_state", 0)

OverrideState == resolve_target(last.pre.cur, TurnContext, Override)

\* the events of one kind in the trace of the last call
Of(kind) == SelectSeq(last.trace, LAMBDA e : e[1] = kind)

Apologies == SelectSeq(last.trace, LAMBDA e : e = <<"post_message", "apology">>)

\* what the store holds for the session of the last call
StoredState == db.session_state[last.chat]

StoredContext == db.session_context[last.chat]

\* the store holds the object's state and context
Persisted == StoredState = me.cur /\ StoredContext = to_dict(me.ctx)

(* -------------------------------- claims ------------------------------- *)
\* C1: in a turn that reaches the transition logic with an age-0 _state
\* override naming an existing state other than the current one, the
\* override branch is the one taken, whatever intent the context holds and
\* whatever entity keys the current state accepts: the first state change of
\* the turn is to the override state, and unless that state's own action
\* moves on, the turn ends there, with that state persisted, no other state
\* change and no action but the override state's.
C1_OverridePrecedence ==
    (Resolving /\ ~IsNone(Override) /\ state_exists(OverrideState)
        /\ OverrideState # last.pre.cur)
    => /\ last.branch = "override"
       /\ ~last.raised
       /\ Len(Of("state_change")) >= 1
       /\ Of("state_change")[1] = <<"state_change", OverrideState>>
       /\ state_action(OverrideState)[1] # "say_next"
            => /\ me.cur = OverrideState
               /\ StoredState = OverrideState
               /\ Len(Of("state_change")) = 1
               /\ \A i \in 1..Len(Of("action")) : Of("action")[i][2] = OverrideState

\* an override taken while an intent is in the context and the current
\* state accepts a key of the event
C1_Witness ==
    /\ Resolving /\ ~IsNone(Override) /\ state_exists(OverrideState)
    /\ OverrideState # last.pre.cur
    /\ ~IsNone(intent_get(TurnContext))
    /\ accepts_message(last.pre.cur, keys(last.entities))
    /\ me.cur = OverrideState

\* the intent cancel_order arrives in the turn and no override is pending
CancelOrderArrives ==
    Resolving /\ last.entities["intent"] = <<"cancel_order">> /\ IsNone(Override)

\* C2 as stated: from any state, a turn with the intent cancel_order and no
\* pending override ends with the current and the persisted state orders.root.
C2_AnyStateToOrdersRoot ==
    CancelOrderArrives => me.cur = OrdersRoot /\ StoredState = OrdersRoot

\* C2, amended: when the session is not at orders.root already and the current
\* flow has no state of its own for the intent, the turn takes the intent
\* branch and ends with the current and the persisted state orders.root.
C2_IntentTransition ==
    (CancelOrderArrives /\ last.pre.cur # OrdersRoot
        /\ IsNone(get_state_for_intent(last.pre.cur[1], <<"cancel_order">>)))
    => /\ last.branch = "intent"
       /\ ~last.raised
       /\ me.cur = OrdersRoot
       /\ StoredState = OrdersRoot

\* an intent transition to orders.root from another flow than default
C2_Witness ==
    /\ CancelOrderArrives
    /\ last.pre.cur = CheckoutPay
    /\ last.branch = "intent"
    /\ me.cur = OrdersRoot

\* C3 as stated: the fallback moves to the root state of the current flow.
C3_FallbackToFlowRoot ==
    (Resolving /\ last.branch = "fallback") => me.cur = <<last.pre.cur[1], "root">>

\* C3, amended: the fallback moves to default.root, whatever flow the
\* session is in, and the turn ends there with that state persisted.
C3_FallbackToDefaultRoot ==
    (Resolving /\ last.branch = "fallback")
    => /\ ~last.raised
       /\ me.cur = DefaultRoot
       /\ StoredState = DefaultRoot

\* a fallback taken in another flow than default
C3_Witness ==
    /\ Resolving /\ last.branch = "fallback"
    /\ last.pre.cur[1] # "default"
    /\ me.cur = DefaultRoot

\* the first message, without entities, of a session that has no record
FreshMessage ==
    /\ last.op = "process" /\ last.message_type = "message" /\ last.entities = NoInput
    /\ IsNone(last.pre_context)
    /\ last.pre.ctx = EmptyContext

\* C4 as stated: the turn ends at the root state with counter 1 and a history
\* of exactly one entry, naming that root state.
C4_FreshHistoryOneEntry ==
    FreshMessage
    => me.cur = DefaultRoot /\ me.ctx.counter = 1 /\ me.ctx.history = <<DefaultRoot>>

\* C4, amended: the turn ends at default.root with counter 1 and an empty
\* history: the fallback names the state the session is in already, so
\* nothing is recorded, no state change is announced and no action runs; the
\* state and the context are persisted.
C4_FreshSession ==
    FreshMessage
    => /\ me.cur = DefaultRoot
       /\ me.ctx.counter = 1
       /\ me.ctx.history = <<>>
       /\ Len(Of("state_change")) = 0
       /\ Len(Of("action")) = 0
       /\ Persisted

C4_Witness == FreshMessage /\ me.ctx.counter = 1 /\ last.branch = "fallback"

\* the turn has no override and no intent, and the state the session is in
\* accepts a key that arrived; the state's action does not call move_to
AcceptsInPlace ==
    /\ Resolving
    /\ IsNone(Override)
    /\ IsNone(intent_get(TurnContext))
    /\ accepts_message(last.pre.cur, keys(last.entities))
    /\ state_action(last.pre.cur)[1] # "say_next"

\* C5: a turn of in-place acceptance leaves the current state and the length
\* of the history unchanged, adds exactly 1 to the counter, runs the current
\* state's action exactly once and persists the state and the context.
C5_InPlaceAcceptance ==
    AcceptsInPlace
    => /\ me.cur = last.pre.cur
       /\ me.ctx.counter = last.pre.ctx.counter + 1
       /\ Len(me.ctx.history) = Len(last.pre.ctx.history)
       /\ Of("action") = << <<"action", last.pre.cur>> >>
       /\ Persisted

\* C6: the own action of a state never runs while one of the state's
\* requirements is unmet, whether the state is entered or the session is
\* in it already.
C6_RequirementGating ==
    \A i \in 1..Len(last.trace) :
        last.trace[i][1] = "action" => check_requirements(last.trace[i][2], me.ctx)

\* the i-th event of the call is the action of a state, and it raises
Raises(i) ==
    /\ last.trace[i][1] = "action"
    /\ state_action(last.trace[i][2])[1] = "raise"

\* ... and the state was entered by a move just before
EnteredAndRaises(i) ==
    /\ Raises(i)
    /\ \E j \in 1..(i - 1) :
          /\ last.trace[j] = <<"state_change", last.trace[i][2]>>
          /\ \A k \in (j + 1)..(i - 1) : last.trace[k][1] = "record_state_change"

\* a turn that starts in world r fails only when an action of its own raises
ProcessedNormally(r) ==
    /\ r.cur \in States
    /\ r.exc => \E i \in 1..Len(r.trace) :
                    r.trace[i][1] = "action" /\ state_action(r.trace[i][2])[1] = "raise"
    /\ ~r.exc => r.db.session_state[last.chat] = r.cur

\* C7: when the action run on entering the target state raises, move_to does
\* not propagate the exception, exactly one apology is posted, the current
\* state stays the target and is persisted, move_to reports a transition
\* (inside process(): the override or the intent branch is taken), and the
\* session resumes from that state: a DialogManager built from the store is
\* in the target state with the same context, and the following turn fails
\* only if an action of its own raises.
C7_MoveToContainment ==
    \A i \in 1..Len(last.trace) :
        EnteredAndRaises(i)
        => /\ ~last.raised
           /\ Len(Apologies) = 1
           /\ me.cur = last.trace[i][2]
           /\ StoredState = last.trace[i][2]
           /\ Persisted
           /\ last.op = "move_to" => last.ret
           /\ last.op = "process" => last.branch \in {"override", "intent"}
           /\ ~init_object(last.chat).exc
           /\ init_object(last.chat).cur = me.cur
           /\ init_object(last.chat).ctx = me.ctx
           /\ \A ev \in SmallEvents :
                 ProcessedNormally(process(world(me), last.chat, ev[1], ev[2]))

\* move_to called from outside process() enters checkout.pay, whose action raises
C7_Witness ==
    /\ last.op = "move_to"
    /\ \E i \in 1..Len(last.trace) : EnteredAndRaises(i)
    /\ me.cur = CheckoutPay
    /\ last.pre.cur # CheckoutPay

\* C8: when an action run during process() raises, whatever made it run, the
\* exception does not leave process(), exactly one apology is posted, the
\* state and the context are persisted and the end of processing is notified.
C8_TurnContainment ==
    (Turn /\ \E i \in 1..Len(last.trace) : Raises(i))
    => /\ ~last.raised
       /\ Len(Apologies) = 1
       /\ Persisted
       /\ Len(Of("processing_end")) = 1

\* the override of the turn names a state that does not exist
FailedOverride == ~IsNone(Override) /\ ~state_exists(OverrideState)

\* the intent rule is reached and the intent's target does not exist
FailedIntent ==
    /\ last.branch # "override"
    /\ ~IsNone(intent_get(TurnContext))
    /\ ~IsNone(intent_target(last.pre.cur[1], intent_get(TurnContext)))
    /\ ~state_exists(qualify(last.pre.cur,
                             intent_target(last.pre.cur[1], intent_get(TurnContext))))

\* the turn ends in the state it started in, with the same history
Unmoved == me.cur = last.pre.cur /\ me.ctx.history = last.pre.ctx.history

counter_of(data) == IF IsNone(data) THEN 0 ELSE data[2]

\* C10: the turns of one session do not overlap, so every processed turn
\* adds exactly 1 to the persisted counter and no turn's write is lost.
C10_SerialisedTurns ==
    Turn => counter_of(StoredContext) = counter_of(last.pre_context) + 1

\* the call just made was made by a DialogManager (not a redeployment)
Called == last'.op \in {"new", "process", "move_to"}

\* C11: a call for one session changes neither the persisted state nor the
\* persisted context of another session, nor what the other session's next
\* turn loads from the store: the other session's turn runs as if alone.
C11_SessionsIndependent ==
    [][Called => \A c \in Chats \ {last'.chat} :
                    /\ db'.session_state[c] = db.session_state[c]
                    /\ db'.session_context[c] = db.session_context[c]
                    /\ init_object(c)'.cur = init_object(c).cur
                    /\ init_object(c)'.ctx = init_object(c).ctx]_vars

\* the part of C11 about the other session's entries alone
C11_EntriesUntouched ==
    [][Called => \A c \in Chats \ {last'.chat} :
                    /\ db'.session_state[c] = db.session_state[c]
                    /\ db'.session_context[c] = db.session_context[c]]_vars

\* C12: when a post to the channel adapter fails during a turn that moved to
\* a new state, the new state and the context are persisted by the end of
\* the turn all the same.
C12_DeliveryFailurePersists ==
    (Turn /\ Len(Of("state_change")) >= 1 /\ Len(Of("post_failed")) >= 1) => Persisted

\* the last call was process() with a message type it does not support
Ignored == last.op = "process" /\ last.message_type \notin supported_types

\* C13: process() with an unsupported message type leaves the counter, the
\* entities, the history, the current state and the session's persisted
\* record unchanged, and runs no action.
C13_UnsupportedIgnored ==
    Ignored
    => /\ me.ctx = last.pre.ctx
       /\ me.cur = last.pre.cur
       /\ StoredState = last.pre_state
       /\ StoredContext = last.pre_context
       /\ \A i \in 1..Len(last.trace) :
             last.trace[i][1] \notin {"action", "requirement", "state_change",
                                      "post_message", "save_state"}

\* an unsupported event for a session that has a record and a history
C13_Witness ==
    /\ Ignored
    /\ ~IsNone(last.pre_context)
    /\ Len(last.pre.ctx.history) >= 1
    /\ me.ctx.counter = last.pre.ctx.counter

\* the history in a persisted context, empty when there is none
history_of(data) == IF IsNone(data) THEN <<>> ELSE from_dict(data).history

IsPrefix(a, b) == Len(a) <= Len(b) /\ SubSeq(b, 1, Len(a)) = a

\* C14 as stated: the persisted history of a session never loses or reorders
\* an entry, whatever the turns and the loads, loads after a change of the
\* schema version included.
C14_HistoryNeverShrinks ==
    [][\A c \in Chats : IsPrefix(history_of(db.session_context[c]),
                                 history_of(db'.session_context[c]))]_vars

\* a load gives the persisted history when the store's dialog_version is the
\* DialogManager's, and an empty history otherwise
LoadKeepsHistory ==
    last'.op = "new"
    => dm'[last'.m].ctx.history =
          IF db.dialog_version = version
          THEN history_of(db.session_context[last'.chat])
          ELSE <<>>

\* a call on a DialogManager only appends to its history, and what it
\* persists is that history
CallExtendsHistory ==
    last'.op \in {"process", "move_to"}
    => /\ IsPrefix(dm[last'.m].ctx.history, dm'[last'.m].ctx.history)
       /\ db'.session_context[last'.chat] # db.session_context[last'.chat]
          => history_of(db'.session_context[last'.chat]) = dm'[last'.m].ctx.history

\* C14, amended: the history never loses or reorders an entry during the
\* turns of a DialogManager, a turn persists the history it has, and a load
\* returns the persisted history as long as the schema version has not
\* changed; a load after a change of the schema version starts the session
\* with an empty history.
C14_HistoryMonotonicWithinVersion ==
    [][LoadKeepsHistory /\ CallExtendsHistory]_vars

\* a load after a change of the schema version drops a recorded history
C14_Witness ==
    /\ last.op = "new"
    /\ db.dialog_version = older_version
    /\ Len(history_of(StoredContext)) >= 1
    /\ me.ctx.history = <<>>

\* the state named by the `_state` entity the context held before the turn
PendingState ==
    resolve_target(last.pre.cur, last.pre.ctx, last.pre.ctx.entities["_state"].value)

\* before the turn the context held a `_state` that the action of the
\* current state set during the turn before (age 0); it names an existing
\* state other than the current one, and the turn's event brings no
\* `_state` of its own
OverridePending ==
    /\ Resolving
    /\ state_action(last.pre.cur)[1] = "set_state"
    /\ last.pre.ctx.entities["_state"] =
          [present |-> TRUE, value |-> state_action(last.pre.cur)[2], age |-> 0]
    /\ state_exists(PendingState)
    /\ PendingState # last.pre.cur
    /\ IsNone(last.entities["_state"])

\* C15: a `_state` override set by the action of a turn is honoured by the
\* turn after it: that turn takes the override branch and moves to the
\* state the override names.
C15_OverrideHonouredNextTurn ==
    OverridePending
    => /\ last.branch = "override"
       /\ Len(Of("state_change")) >= 1
       /\ Of("state_change")[1] = <<"state_change", PendingState>>

\* the state the target of the last move_to call resolves to
MoveTarget == resolve_target(last.pre.cur, last.pre.ctx, last.target)

\* C16: move_to without forced re-record, to a state that does not exist or
\* that is the current state, returns "no transition", leaves the current
\* state, the context with its history and the persisted record as they
\* were, announces no state change and runs no action.
C16_NoTransitionNoOp ==
    (last.op = "move_to" /\ ~last.save_identical
        /\ (~state_exists(MoveTarget) \/ MoveTarget = last.pre.cur))
    => /\ ~last.ret
       /\ ~last.raised
       /\ me.cur = last.pre.cur
       /\ me.ctx = last.pre.ctx
       /\ StoredState = last.pre_state
       /\ StoredContext = last.pre_context
       /\ last.trace = <<>>

\* move_to to a state that does not exist, for a session with a history
C16_Witness ==
    /\ last.op = "move_to" /\ ~last.save_identical
    /\ ~state_exists(MoveTarget)
    /\ Len(last.pre.ctx.history) >= 1
    /\ ~last.ret

\* move_to to the state the session is in, found through the history
C16_WitnessIdentical ==
    /\ last.op = "move_to" /\ ~last.save_identical
    /\ last.target[1] = "back"
    /\ Len(last.pre.ctx.history) >= 1
    /\ MoveTarget = last.pre.cur

\* C17: move_to with forced re-record, to the state the session is in,
\* appends one history entry for the state and goes on as a transition: the
\* state change is announced, the requirement gate and the action it lets
\* through run, the state is persisted and a transition is reported.
C17_ForcedReentry ==
    (last.op = "move_to" /\ last.save_identical /\ MoveTarget = last.pre.cur
        /\ last.pre.recording # "unset")
    => /\ me.ctx.history = Append(last.pre.ctx.history, last.pre.cur)
       /\ Of("state_change") = << <<"state_change", last.pre.cur>> >>
       /\ Len(Of("action")) + Len(Of("requirement")) >= 1
       /\ Persisted
       /\ last.ret

\* the part of C17 the code delivers: the history entry
C17_EntryAppended ==
    (last.op = "move_to" /\ last.save_identical /\ MoveTarget = last.pre.cur)
    => me.ctx.history = Append(last.pre.ctx.history, last.pre.cur)

\* C18: every processing_start that process() sends is followed, before the
\* call returns, by exactly one processing_end, also when the event type is
\* unsupported or the test-recording marker ends the turn early.
C18_ProcessingPaired ==
    last.op = "process"
    => /\ Len(Of("processing_start")) = 1
       /\ Len(Of("processing_end")) = 1

\* C19: when process() returns normally for a supported event type, the
\* persisted state is the current state and the persisted context is the
\* context in memory, counter included.
C19_PersistedMatchesMemory ==
    (Turn /\ ~last.raised) => Persisted

\* a turn whose action moved on to another state by itself
C19_Witness ==
    /\ Turn /\ ~last.raised
    /\ last.branch = "override"
    /\ Len(Of("state_change")) = 2
    /\ me.ctx.counter = 2
    /\ Persisted

\* the DialogManager objects that exist
Built == {m \in Managers : dm[m].built}

\* the last call was move_to with a history offset the history covers
MovedBack ==
    /\ last.op = "move_to" /\ ~last.raised
    /\ last.target[1] = "back"
    /\ Len(last.pre.ctx.history) >= last.target[2]

\* C20: whenever the history is not empty its last entry names the current
\* state, in memory and in the store; every change of the current state by a
\* call appends exactly one entry (a forced re-record appends one without a
\* change); move_to(n) goes to the n-th entry from the end of the history.
C20_HistoryTracksState ==
    /\ \A m \in Built :
          Len(dm[m].ctx.history) >= 1 => dm[m].ctx.history[Len(dm[m].ctx.history)] = dm[m].cur
    /\ \A c \in Chats :
          Len(history_of(db.session_context[c])) >= 1
          => history_of(db.session_context[c])[Len(history_of(db.session_context[c]))]
                = db.session_state[c]
    /\ last.op \in {"process", "move_to"}
       => Len(me.ctx.history) =
             Len(last.pre.ctx.history) + Len(Of("state_change"))
             + (IF last.op = "move_to" /\ last.save_identical /\ MoveTarget = last.pre.cur
                THEN 1 ELSE 0)
    /\ MovedBack
       => me.cur = last.pre.ctx.history[Len(last.pre.ctx.history) - last.target[2] + 1]

\* a reload from the store after a move whose action raised
C20_Witness ==
    /\ last.op = "new"
    /\ me.cur = CheckoutPay
    /\ Len(me.ctx.history) >= 1
    /\ me.ctx.history[Len(me.ctx.history)] = CheckoutPay

====
